---- MODULE Spec2Model ----
(***************************************************************************)
(* Model of src/lib.rs of the miller_rabin crate: decompose, miller_rabin, *)
(* is_witness and is_prime (with the rayon find_any driver).               *)
(*                                                                         *)
(* BigUint values are modelled by TLC integers.  TLC integers are 32 bits  *)
(* wide, so the boundary between the two bands of is_prime, which the      *)
(* source puts at 0xFFFF_FFFF_FFFF_FFFF (2^64 - 1), is modelled by         *)
(* 2^WordBits - 1: every n <= U64Max takes the fixed base list and every   *)
(* n > U64Max takes the random bases, exactly as in the source.            *)
(***************************************************************************)
EXTENDS Integers, Sequences, FiniteSets

\* ------------------------------------------------------------------ bounds
\* n ranges over 0..MaxN, 2^WordBits + 0..MaxBigOffset and two large values
MaxN == 24
\* a (is_witness) ranges over 0..MaxA
MaxA == 6
\* k ranges over 0..MaxK
MaxK == 2
\* number of rayon workers that may evaluate a base at the same time
MaxWorkers == 2
\* width of the machine word that separates the two bands (64 in the source)
WordBits == 18
\* the probabilistic band is sampled at 2^WordBits + 0..MaxBigOffset
MaxBigOffset == 3

RECURSIVE Pow2(_)
Pow2(e) == IF e = 0 THEN 1 ELSE 2 * Pow2(e - 1)

\* lib.rs:117  biguint!(0xFFFF_FFFF_FFFF_FFFFu64), scaled to WordBits
U64Max == Pow2(WordBits) - 1

\* 252601 = 41 * 61 * 101, an odd composite below U64Max
OddComposite == 41 * 61 * 101

\* 8191 = 2^13 - 1, a Mersenne prime below U64Max (the tests of lib.rs:145-157
\* use the Mersenne prime 2^31 - 1)
LargePrime == Pow2(13) - 1

\* the arguments n of the calls: a small range and the probabilistic band,
\* called with every k of KValues, and two large values of the deterministic
\* band, called with k = MaxK (as the tests call is_prime(n, K) with one K)
NValues == (0..MaxN) \cup {U64Max + 1 + c : c \in 0..MaxBigOffset}
LargeNValues == {OddComposite, LargePrime}
AValues == 0..MaxA
KValues == 0..MaxK

\* ------------------------------------------------ BigUint library contract
\* a * b mod m without leaving 32 bits (a, b < m < 2^20)
MulMod(a, b, m) == (((a * (b \div 1024)) % m) * 1024 + a * (b % 1024)) % m

\* BigUint::modpow(exp, modulus): square and multiply
RECURSIVE ModPow(_, _, _)
ModPow(b, e, m) ==
    IF e = 0 THEN 1 % m
    ELSE LET h == ModPow(b, e \div 2, m)
             s == MulMod(h, h, m)
         IN IF e % 2 = 1 THEN MulMod(s, b % m, m) ELSE s

\* BigUint::bits(): number of bits needed to represent x
RECURSIVE Bits(_)
Bits(x) == IF x = 0 THEN 0 ELSE 1 + Bits(x \div 2)

\* --------------------------------------------------------------- decompose
\* lib.rs:39-42  while &d % two == one { d /= two; r += 1u8; }
RECURSIVE decompose_loop(_, _)
decompose_loop(d0, r0) ==
    IF d0 % 2 = 1 THEN decompose_loop(d0 \div 2, r0 + 1) ELSE <<d0, r0>>

\* lib.rs:33-45  (d, r) starting from d = n - 1, r = 0; requires n >= 1
decompose(n0) == decompose_loop(n0 - 1, 0)

\* ------------------------------------------------------------ miller_rabin
\* lib.rs:57-67  the squaring loop and the final `true`
RECURSIVE miller_rabin_loop(_, _, _, _)
miller_rabin_loop(x, count, n0, r0) ==
    IF count < r0
    THEN LET x2 == ModPow(x, 2, n0)
         IN IF x2 = n0 - 1 THEN FALSE
            ELSE miller_rabin_loop(x2, count + 1, n0, r0)
    ELSE TRUE

miller_rabin_no_one_check(a0, n0, d0, r0) ==
    LET x == ModPow(a0, d0, n0)
    IN IF x = n0 - 1 THEN FALSE
       ELSE miller_rabin_loop(x, 1, n0, r0)

\* lib.rs:47-68
miller_rabin(a0, n0, d0, r0) ==
    LET x == ModPow(a0, d0, n0)
    IN IF x = 1 \/ x = n0 - 1 THEN FALSE
       ELSE miller_rabin_loop(x, 1, n0, r0)

\* -------------------------------------------------------------- is_witness
is_witness_invalid_n2(a0, n0) == a0 < 2 \/ n0 < 2

\* lib.rs:86  if a < &biguint!(2) || n < &biguint!(3) { return None; }
is_witness_invalid(a0, n0) == a0 < 2 \/ n0 < 3

\* ---------------------------------------------------------------- is_prime
\* lib.rs:118
fixed_samples == <<2, 3, 5, 7, 11, 13, 17, 19, 23, 29, 31, 37>>

\* lib.rs:121  .filter(|&&m| biguint!(m) < n_minus_one)
filter_samples(list, nm1) == SelectSeq(list, LAMBDA m : m < nm1)

\* lib.rs:127  rng.gen_biguint(bits): any value of [0, 2^bits); the model
\* draws the values at both ends of the range and around n - 1
gen_biguint(bits, nm1) ==
    {m \in {0, 1, 2, 3, nm1 - 1, nm1, Pow2(bits) - 1} : 0 <= m /\ m < Pow2(bits)}

find_any_last_wins(cur, i, hit) == IF hit THEN i ELSE 0

\* rayon find_any (lib.rs:122, 134): a match is recorded, a non-match leaves
\* the recorded match alone; which of several matches is kept is unspecified
\* (the model keeps the earlier one or the new one, see worker_finish)
find_any_record(cur, i, hit) == IF hit THEN i ELSE cur

VARIABLES
    op,           \* "is_prime" or "is_witness": the entry point that was called
    n,            \* argument n
    a,            \* argument a of is_witness
    k,            \* argument k of is_prime
    pc,           \* position of the call
    n_minus_one,  \* lib.rs:110
    d, r,         \* lib.rs:111 / lib.rs:90
    decomposeArgs,\* the arguments decompose has been called with
    samples,      \* the base sequence handed to the parallel iterator
    pending,      \* indices of samples no worker has taken yet
    inflight,     \* indices of samples a worker is evaluating miller_rabin on
    found,        \* index recorded by find_any, 0 for none
    result        \* returned value, "unset" until the call returns

vars == <<op, n, a, k, pc, n_minus_one, d, r, decomposeArgs, samples,
          pending, inflight, found, result>>

Init ==
    /\ op \in {"is_prime", "is_witness"}
    /\ \/ op = "is_prime" /\ a = 0 /\ n \in NValues /\ k \in KValues
       \/ op = "is_prime" /\ a = 0 /\ n \in LargeNValues /\ k = MaxK
       \/ op = "is_witness" /\ a \in AValues /\ n \in 0..MaxN /\ k = 0
    /\ pc = IF op = "is_prime" THEN "ip110" ELSE "iw86"
    /\ n_minus_one = 0
    /\ d = 0
    /\ r = 0
    /\ decomposeArgs = {}
    /\ samples = <<>>
    /\ pending = {}
    /\ inflight = {}
    /\ found = 0
    /\ result = "unset"

\* lib.rs:110  let n_minus_one: BigUint = n - 1u8;  (BigUint subtraction
\* panics when the result would be negative)
is_prime_sub_one ==
    /\ pc = "ip110"
    /\ IF n = 0
       THEN pc' = "panic" /\ UNCHANGED n_minus_one
       ELSE pc' = "ip111" /\ n_minus_one' = n - 1
    /\ UNCHANGED <<op, n, a, k, d, r, decomposeArgs, samples, pending,
                   inflight, found, result>>

\* lib.rs:111  let (ref d, ref r) = decompose(n);
is_prime_decompose ==
    /\ pc = "ip111"
    /\ decomposeArgs' = decomposeArgs \cup {n}
    /\ d' = decompose(n)[1]
    /\ r' = decompose(n)[2]
    /\ pc' = "ip113"
    /\ UNCHANGED <<op, n, a, k, n_minus_one, samples, pending, inflight,
                   found, result>>

\* lib.rs:113-117  the guards on n
is_prime_guards ==
    /\ pc = "ip113"
    /\ IF n <= 1 THEN pc' = "done" /\ result' = "false"
       ELSE IF n <= 3 THEN pc' = "done" /\ result' = "true"
       ELSE IF n <= U64Max THEN pc' = "ip118" /\ UNCHANGED result
       ELSE pc' = "ip127" /\ UNCHANGED result
    /\ UNCHANGED <<op, n, a, k, n_minus_one, d, r, decomposeArgs, samples,
                   pending, inflight, found>>

\* lib.rs:118-121  the fixed list, filtered; the filter closure reads only m
\* and n_minus_one, so it is applied before the bases are handed out
is_prime_fixed_samples ==
    /\ pc = "ip118"
    /\ samples' = filter_samples(fixed_samples, n_minus_one)
    /\ pending' = 1..Len(samples')
    /\ pc' = "par"
    /\ UNCHANGED <<op, n, a, k, n_minus_one, d, r, decomposeArgs, inflight,
                   found, result>>

\* lib.rs:127-129  one value of repeat_with(..).filter(..) while take(k)
\* still wants one
is_prime_draw_sample ==
    /\ pc = "ip127"
    /\ Len(samples) < k
    /\ \E m \in gen_biguint(Bits(n_minus_one), n_minus_one) :
          samples' = IF m < n_minus_one THEN Append(samples, m) ELSE samples
    /\ UNCHANGED <<op, n, a, k, pc, n_minus_one, d, r, decomposeArgs,
                   pending, inflight, found, result>>

\* lib.rs:129-130  take(k) is exhausted, collect()
is_prime_collect ==
    /\ pc = "ip127"
    /\ Len(samples) = k
    /\ pending' = 1..Len(samples)
    /\ pc' = "par"
    /\ UNCHANGED <<op, n, a, k, n_minus_one, d, r, decomposeArgs, samples,
                   inflight, found, result>>

\* lib.rs:122 / 134  a worker takes a base that nobody has taken; no base is
\* taken once a match has been recorded
worker_take ==
    /\ pc = "par"
    /\ found = 0
    /\ Cardinality(inflight) < MaxWorkers
    /\ \E i \in pending :
          /\ pending' = pending \ {i}
          /\ inflight' = inflight \cup {i}
    /\ UNCHANGED <<op, n, a, k, pc, n_minus_one, d, r, decomposeArgs,
                   samples, found, result>>

\* lib.rs:122 / 134  the worker's miller_rabin call returns
worker_finish ==
    /\ pc = "par"
    /\ \E i \in inflight :
          /\ inflight' = inflight \ {i}
          /\ \/ found' = find_any_record(found, i, miller_rabin(samples[i], n, d, r))
             \/ found # 0 /\ found' = found
    /\ UNCHANGED <<op, n, a, k, pc, n_minus_one, d, r, decomposeArgs,
                   samples, pending, result>>

\* lib.rs:123 / 135  .is_none()
is_prime_return ==
    /\ pc = "par"
    /\ inflight = {}
    /\ pending = {} \/ found # 0
    /\ result' = IF found = 0 THEN "true" ELSE "false"
    /\ pc' = "done"
    /\ UNCHANGED <<op, n, a, k, n_minus_one, d, r, decomposeArgs, samples,
                   pending, inflight, found>>

\* lib.rs:86-88
is_witness_guard ==
    /\ pc = "iw86"
    /\ IF is_witness_invalid(a, n)
       THEN pc' = "done" /\ result' = "None"
       ELSE pc' = "iw90" /\ UNCHANGED result
    /\ UNCHANGED <<op, n, a, k, n_minus_one, d, r, decomposeArgs, samples,
                   pending, inflight, found>>

\* lib.rs:90  let (ref d, ref r) = decompose(n);  (n - 1u8 panics for n = 0)
is_witness_decompose ==
    /\ pc = "iw90"
    /\ decomposeArgs' = decomposeArgs \cup {n}
    /\ IF n = 0
       THEN pc' = "panic" /\ UNCHANGED <<d, r>>
       ELSE /\ d' = decompose(n)[1]
            /\ r' = decompose(n)[2]
            /\ pc' = "iw91"
    /\ UNCHANGED <<op, n, a, k, n_minus_one, samples, pending, inflight,
                   found, result>>

\* lib.rs:91  Some(miller_rabin(a, n, d, r))
is_witness_return ==
    /\ pc = "iw91"
    /\ result' = IF miller_rabin(a, n, d, r) THEN "Some(true)" ELSE "Some(false)"
    /\ pc' = "done"
    /\ UNCHANGED <<op, n, a, k, n_minus_one, d, r, decomposeArgs, samples,
                   pending, inflight, found>>

Next ==
    \/ is_prime_sub_one
    \/ is_prime_decompose
    \/ is_prime_guards
    \/ is_prime_fixed_samples
    \/ is_prime_draw_sample
    \/ is_prime_collect
    \/ worker_take
    \/ worker_finish
    \/ is_prime_return
    \/ is_witness_guard
    \/ is_witness_decompose
    \/ is_witness_return

Spec == Init /\ [][Next]_vars

\* ------------------------------------------------- arithmetic of the claims
RECURSIVE HasDivisorFrom(_, _)
HasDivisorFrom(m, i) ==
    IF i * i > m THEN FALSE
    ELSE IF m % i = 0 THEN TRUE
    ELSE HasDivisorFrom(m, i + 1)

IsPrimeNumber(m) == m >= 2 /\ ~HasDivisorFrom(m, 2)

\* the odd part of m >= 1 and the exponent of 2 in m
RECURSIVE OddPart(_)
OddPart(m) == IF m % 2 = 0 THEN OddPart(m \div 2) ELSE m

RECURSIVE TwoExponent(_)
TwoExponent(m) == IF m % 2 = 0 THEN 1 + TwoExponent(m \div 2) ELSE 0

\* the Miller-Rabin criterion: with m - 1 = dd * 2^rr and dd odd, b is a
\* non-witness iff b^dd = 1 or b^(dd * 2^i) = m - 1 for some 0 <= i < rr
IsNonWitness(b, m) ==
    LET dd == OddPart(m - 1)
        rr == TwoExponent(m - 1)
    IN \/ ModPow(b, dd, m) = 1
       \/ \E i \in 0..(rr - 1) : ModPow(b, dd * Pow2(i), m) = m - 1

Returned == pc = "done"

\* ------------------------------------------------------------------ claims

\* C1: for every odd composite n with 9 <= n <= 2^64 - 1 (U64Max in the
\* model) and every k, is_prime(n, k) returns false.
C1_OddCompositeIsRejected ==
    (op = "is_prime" /\ Returned /\ 9 <= n /\ n <= U64Max /\ n % 2 = 1
        /\ ~IsPrimeNumber(n))
    => result = "false"

\* C2: for every prime n of the deterministic band and every k, is_prime(n, k)
\* returns true: the call does not abort, find_any records no witness among
\* the bases it tests, and the returned value is true.
\* (Written as a disjunction so that the trial division of IsPrimeNumber is
\* only evaluated in the states where the call has gone wrong.)
C2_PrimeIsAccepted ==
    \/ ~(op = "is_prime" /\ 2 <= n /\ n <= U64Max)
    \/ /\ pc # "panic"
       /\ found = 0
       /\ Returned => result = "true"
    \/ ~IsPrimeNumber(n)

\* a prime with several bases has been tested on the general path
C2_Witness ==
    /\ op = "is_prime" /\ Returned /\ result = "true"
    /\ n >= 5 /\ n <= U64Max /\ IsPrimeNumber(n)
    /\ Len(samples) >= 2 /\ pending = {}

\* C3: for every even n > 2 and every k, is_prime(n, k) returns false.  (The
\* calls with n > U64Max and k = 0 test no base at all and are left out: the
\* formula is the claim on every call that tests at least the bases below
\* n - 1 or one random base.)
C3_EvenIsRejected ==
    (op = "is_prime" /\ Returned /\ n > 2 /\ n % 2 = 0 /\ (n <= U64Max \/ k >= 1))
    => result = "false"

\* C4: is_prime never fails on n = 0, 1, 2, 3: the call never aborts, returns
\* false for 0 and 1 and true for 2 and 3.
C4_TrivialInputsNeverFail ==
    (op = "is_prime" /\ n \in 0..3)
    => /\ pc # "panic"
       /\ Returned => result = (IF n <= 1 THEN "false" ELSE "true")

\* C5: is_witness(a, n) returns None iff a < 2 or n < 3; for every other pair
\* it completes and returns Some(true) or Some(false).
C5_InvalidIffSmall ==
    op = "is_witness"
    => /\ pc # "panic"
       /\ Returned => /\ result \in {"None", "Some(true)", "Some(false)"}
                      /\ result = "None" <=> (a < 2 \/ n < 3)

\* is_witness has returned Some(..) for an even n and a base above n - 2
C5_Witness ==
    /\ op = "is_witness" /\ Returned
    /\ a >= 2 /\ n >= 3 /\ n % 2 = 0 /\ a > n - 2
    /\ result \in {"Some(true)", "Some(false)"}

\* C6: for odd n >= 3 and 2 <= a <= n - 2, is_witness(a, n) is Some(false)
\* when a is a non-witness by the Miller-Rabin criterion and Some(true)
\* otherwise.
C6_WitnessMatchesCriterion ==
    (op = "is_witness" /\ Returned /\ n >= 3 /\ n % 2 = 1 /\ 2 <= a /\ a <= n - 2)
    => result = (IF IsNonWitness(a, n) THEN "Some(false)" ELSE "Some(true)")

\* C7: for every odd n >= 3, decompose(n) returns (d, r) with d odd, r >= 1
\* and d * 2^r = n - 1.
C7_DecomposeCanonicalForm ==
    (n \in decomposeArgs /\ pc # "panic" /\ n >= 3 /\ n % 2 = 1)
    => /\ d % 2 = 1
       /\ r >= 1
       /\ d * Pow2(r) = n - 1

\* C8: every base handed to miller_rabin by is_prime satisfies 2 <= a < n - 1,
\* in both bands and whatever the random generator yields.
C8_BasesInRange ==
    op = "is_prime"
    => \A i \in inflight : 2 <= samples[i] /\ samples[i] < n - 1

\* C9: whatever the interleaving of the workers, is_prime on the general path
\* returns false iff some base of the sequence makes miller_rabin return true,
\* and true iff none does.
C9_VerdictIsAnyWitness ==
    (op = "is_prime" /\ Returned /\ n >= 4)
    => LET any == \E i \in 1..Len(samples) : miller_rabin(samples[i], n, d, r)
       IN /\ result = "false" <=> any
          /\ result = "true" <=> ~any

\* the driver has returned false after a non-witness base was tested, with
\* bases still pending when the witness was found
C9_Witness ==
    /\ op = "is_prime" /\ Returned /\ result = "false"
    /\ pending # {}
    /\ \E i \in (1..Len(samples)) \ pending : ~miller_rabin(samples[i], n, d, r)

\* C10: decompose is only ever invoked with an odd n >= 3.
C10_DecomposeOnlyOddAtLeast3 ==
    \A m \in decomposeArgs : m >= 3 /\ m % 2 = 1

====
